---- MODULE Spec2Model ----
(***************************************************************************)
(* Model of summarization-pydantic-ai: the two history processors          *)
(* SlidingWindowProcessor (sliding_window.py, discards the trimmed prefix) *)
(* and SummarizationProcessor (processor.py, replaces the prefix by a      *)
(* summary), with the trigger evaluation, the two cutoff searches and the  *)
(* tool-call pair guard they each carry a copy of.                         *)
(*                                                                         *)
(* A message is [kind, parts]; a part is [part_kind, tool_call_id, chars,  *)
(* content]. chars is the number of characters count_tokens_approximately  *)
(* adds for the part; tool_call_id "" is a call or return without an id.   *)
(* A ContextSize ("messages", n), ("tokens", n) or ("fraction", f) is      *)
(* [kind, value, den] with the threshold value/den: den = 1 for messages   *)
(* and tokens, and only dyadic fractions are used, so that Python's float  *)
(* product max_input_tokens * f is exact.                                  *)
(***************************************************************************)
EXTENDS Integers, Sequences, FiniteSets, TLC

VARIABLES
    messages,            \* the caller's message history (list[ModelMessage])
    trigger_conditions,  \* self._trigger_conditions
    keep,                \* self.keep
    max_input_tokens,    \* self.max_input_tokens (None or an int)
    token_counter,       \* self.token_counter (the name of a counter)
    summarization_agent, \* self._summarization_agent (None or the Agent created)
    pc,                  \* "idle" | "awaiting" (inside agent.run) | "done"
    strategy,            \* the processor of the current call
    total_tokens,        \* local of __call__
    should,              \* local of __call__: the trigger decision
    cutoff_index,        \* local of __call__
    result,              \* the list __call__ returned
    agents_created,      \* Agent(...) constructions over the instance's life
    agent_runs,          \* agent.run calls made by the current __call__
    raised,              \* what the constructor raised: "None" or "ValueError"
    agent,               \* local of _create_summary: the Agent the call runs
    exc,                 \* what _create_summary's except clause caught
    other                \* the call of another session on the same instance

vars == <<messages, trigger_conditions, keep, max_input_tokens, token_counter,
          summarization_agent, pc, strategy, total_tokens, should,
          cutoff_index, result, agents_created, agent_runs, raised, agent,
          exc, other>>

config == <<trigger_conditions, keep, max_input_tokens, token_counter>>

frame == <<pc, strategy, total_tokens, should, cutoff_index, result, agent_runs,
           agent, exc>>

(***************************************************************************)
(* Bounds of the model.                                                    *)
(***************************************************************************)
\* longest history under Spec (every configuration)
MaxLen == 4
\* longest history under SpecLong (histories longer than the pair window)
MaxLongLen == 7
\* largest retained-message count compared by the monotonicity property
MaxKeep == 8
\* Agent(...) constructions counted before the counter saturates
MaxAgents == 2
\* longest history of either session under SpecShared
MaxSharedLen == 2
\* largest token total or token target the pure-function properties try
MaxTokens == 10
MaxGuardLen == 4
MaxDeepLen == 21

(***************************************************************************)
(* Program constants.                                                      *)
(***************************************************************************)
\* max_input_tokens: int | None = None
None == -1
SW_DEFAULT_WINDOW_SIZE == 50
SW_SEARCH_RANGE_FOR_TOOL_PAIRS == 5
SP_DEFAULT_MESSAGES_TO_KEEP == 20
SP_SEARCH_RANGE_FOR_TOOL_PAIRS == 5
CHARS_PER_TOKEN == 4

Max(a, b) == IF a >= b THEN a ELSE b
Min(a, b) == IF a <= b THEN a ELSE b

\* Python's int(n / d) for d > 0: truncation toward zero
IntTrunc(n, d) == IF n >= 0 THEN n \div d ELSE -((-n) \div d)

\* messages[k:] and messages[:k] for 0 <= k (0-based k, as in the source)
SliceFrom(msgs, k) == SubSeq(msgs, Min(k, Len(msgs)) + 1, Len(msgs))
SliceTo(msgs, k) == SubSeq(msgs, 1, Min(k, Len(msgs)))

(***************************************************************************)
(* Messages.                                                               *)
(***************************************************************************)
Part(pk, id, n) == [part_kind |-> pk, tool_call_id |-> id, chars |-> n, content |-> "text"]

ModelRequest(parts) == [kind |-> "request", parts |-> parts]
ModelResponse(parts) == [kind |-> "response", parts |-> parts]

UserMsg == ModelRequest(<<Part("user-prompt", "", 5)>>)
CallMsg == ModelResponse(<<Part("tool-call", "a", 2)>>)
ReturnMsg == ModelRequest(<<Part("tool-return", "a", 9)>>)

\* the messages a caller appends
MessageShapes == {UserMsg, CallMsg, ReturnMsg}

\* a tool call and a tool return whose tool_call_id is the empty string
CallNoIdMsg == ModelResponse(<<Part("tool-call", "", 2)>>)
ReturnNoIdMsg == ModelRequest(<<Part("tool-return", "", 9)>>)

\* the messages of the histories a processor is handed ready-made
GuardShapes == MessageShapes \cup {CallNoIdMsg, ReturnNoIdMsg}

RECURSIVE SumChars(_)
SumChars(parts) ==
    IF parts = <<>> THEN 0
    ELSE LET p == Head(parts)
             counted == \/ p.part_kind \in {"user-prompt", "system-prompt", "tool-return"}
                        \/ p.part_kind \in {"text", "tool-call"}
         IN  (IF counted THEN p.chars ELSE 0) + SumChars(Tail(parts))

RECURSIVE TotalChars(_)
TotalChars(msgs) ==
    IF msgs = <<>> THEN 0
    ELSE (IF Head(msgs).kind \in {"request", "response"}
          THEN SumChars(Head(msgs).parts) ELSE 0) + TotalChars(Tail(msgs))

\* mutant: the quotient is rounded up
count_tokens_approximately_rounds_up(msgs) ==
    (TotalChars(msgs) + CHARS_PER_TOKEN - 1) \div CHARS_PER_TOKEN

count_tokens_approximately(msgs) == TotalChars(msgs) \div CHARS_PER_TOKEN

\* a counter that is not monotone under suffix growth: the tokens of the
\* first message of the sequence it is given
head_counter(msgs) == IF msgs = <<>> THEN 0 ELSE SumChars(msgs[1].parts)

TokenCounters == {"count_tokens_approximately", "head_counter"}

\* another counter that is not monotone under suffix growth: a function of
\* the length alone, 0 for every third length
cycle_counter(msgs) == IF Len(msgs) % 3 = 0 THEN 0 ELSE 10

InputTokenCounters == {"count_tokens_approximately", "cycle_counter"}

\* self.token_counter(msgs)
CallCounter(counter, msgs) ==
    CASE counter = "count_tokens_approximately" -> count_tokens_approximately(msgs)
      [] counter = "head_counter" -> head_counter(msgs)
      [] counter = "cycle_counter" -> cycle_counter(msgs)

(***************************************************************************)
(* The processor instance, as the methods see it.                          *)
(***************************************************************************)
self == [trigger_conditions |-> trigger_conditions, keep |-> keep,
         max_input_tokens |-> max_input_tokens, token_counter |-> token_counter]

\* Python truthiness of self.max_input_tokens: None and 0 are falsy
Truthy(m) == m /= None /\ m /= 0

\* int(self.max_input_tokens * value) for a fraction value/den
FractionThreshold(m, ctx) == IntTrunc(m * ctx.value, ctx.den)

\* len(messages).bit_length()
RECURSIVE bit_length(_)
bit_length(n) == IF n = 0 THEN 0 ELSE 1 + bit_length(n \div 2)

\* the tool_call_ids set of one ModelResponse: ids of its ToolCallParts, falsy ids skipped
ToolCallIds(msg) ==
    {msg.parts[p].tool_call_id : p \in {q \in DOMAIN msg.parts :
        /\ msg.parts[q].part_kind = "tool-call"
        /\ msg.parts[q].tool_call_id /= ""}}

\* whether a ModelRequest carries a ToolReturnPart whose id is in ids
ReturnsAnyOf(msg, ids) ==
    /\ msg.kind = "request"
    /\ \E q \in DOMAIN msg.parts :
          /\ msg.parts[q].part_kind = "tool-return"
          /\ msg.parts[q].tool_call_id \in ids

(***************************************************************************)
(* SlidingWindowProcessor (sliding_window.py). Indices are 0-based as in   *)
(* the source: message i of the source is msgs[i + 1].                     *)
(***************************************************************************)
RECURSIVE SW_should_trim_loop(_, _, _, _)
SW_should_trim_loop(slf, msgs, tokens, n) ==
    IF n > Len(slf.trigger_conditions) THEN FALSE
    ELSE LET c == slf.trigger_conditions[n] IN
         IF c.kind = "messages" /\ Len(msgs) >= c.value THEN TRUE
         ELSE IF c.kind = "tokens" /\ tokens >= c.value THEN TRUE
         ELSE IF /\ c.kind = "fraction"
                 /\ Truthy(slf.max_input_tokens)
                 /\ tokens >= FractionThreshold(slf.max_input_tokens, c) THEN TRUE
         ELSE SW_should_trim_loop(slf, msgs, tokens, n + 1)

\* mutant: the loop returns after its first condition
SW_should_trim_first_only(slf, msgs, tokens) ==
    IF slf.trigger_conditions = <<>> THEN FALSE
    ELSE LET c == slf.trigger_conditions[1] IN
         \/ c.kind = "messages" /\ Len(msgs) >= c.value
         \/ c.kind = "tokens" /\ tokens >= c.value
         \/ /\ c.kind = "fraction"
            /\ Truthy(slf.max_input_tokens)
            /\ tokens >= FractionThreshold(slf.max_input_tokens, c)

SW_should_trim(slf, msgs, tokens) ==
    IF slf.trigger_conditions = <<>> THEN FALSE
    ELSE SW_should_trim_loop(slf, msgs, tokens, 1)

\* mutant: the return's side of the cutoff taken with <= instead of <
SW_is_safe_cutoff_point_inclusive(msgs, cutoff) ==
    IF cutoff >= Len(msgs) THEN TRUE
    ELSE LET search_start == Max(0, cutoff - SW_SEARCH_RANGE_FOR_TOOL_PAIRS)
             search_end == Min(Len(msgs), cutoff + SW_SEARCH_RANGE_FOR_TOOL_PAIRS)
         IN  \A i \in search_start .. (search_end - 1) :
                LET msg == msgs[i + 1]
                    tool_call_ids == ToolCallIds(msg)
                IN  \/ msg.kind /= "response"
                    \/ tool_call_ids = {}
                    \/ \A j \in (i + 1) .. (Len(msgs) - 1) :
                          ReturnsAnyOf(msgs[j + 1], tool_call_ids)
                              => ((i < cutoff) = (j <= cutoff))

SW_is_safe_cutoff_point(msgs, cutoff) ==
    IF cutoff >= Len(msgs) THEN TRUE
    ELSE LET search_start == Max(0, cutoff - SW_SEARCH_RANGE_FOR_TOOL_PAIRS)
             search_end == Min(Len(msgs), cutoff + SW_SEARCH_RANGE_FOR_TOOL_PAIRS)
         IN  \A i \in search_start .. (search_end - 1) :
                LET msg == msgs[i + 1]
                    tool_call_ids == ToolCallIds(msg)
                IN  \/ msg.kind /= "response"
                    \/ tool_call_ids = {}
                    \/ \A j \in (i + 1) .. (Len(msgs) - 1) :
                          ReturnsAnyOf(msgs[j + 1], tool_call_ids)
                              => ((i < cutoff) = (j < cutoff))

\* mutant: the scan runs upward, range(start, len(messages) + 1)
RECURSIVE SW_scan_up(_, _)
SW_scan_up(msgs, i) ==
    IF i > Len(msgs) THEN 0
    ELSE IF SW_is_safe_cutoff_point(msgs, i) THEN i
    ELSE SW_scan_up(msgs, i + 1)

\* for i in range(start, -1, -1): if safe(i): return i; then return 0
RECURSIVE SW_scan_down(_, _)
SW_scan_down(msgs, i) ==
    IF i < 0 THEN 0
    ELSE IF SW_is_safe_cutoff_point(msgs, i) THEN i
    ELSE SW_scan_down(msgs, i - 1)

\* mutant: target_cutoff = len(messages) + messages_to_keep (sign slip)
SW_find_safe_cutoff_plus(msgs, messages_to_keep) ==
    IF Len(msgs) <= messages_to_keep THEN 0
    ELSE SW_scan_down(msgs, Len(msgs) + messages_to_keep)

\* mutant: target_cutoff = messages_to_keep (the count kept taken for the index)
SW_find_safe_cutoff_count_as_index(msgs, messages_to_keep) ==
    IF Len(msgs) <= messages_to_keep THEN 0
    ELSE SW_scan_down(msgs, messages_to_keep)

SW_find_safe_cutoff(msgs, messages_to_keep) ==
    IF Len(msgs) <= messages_to_keep THEN 0
    ELSE SW_scan_down(msgs, Len(msgs) - messages_to_keep)

\* mutant: the midpoint's suffix taken as messages[mid + 1:]
RECURSIVE SW_binary_search_off_by_one(_, _, _, _, _, _, _, _)
SW_binary_search_off_by_one(slf, msgs, target, left, right, candidate, iters, rounds) ==
    IF iters = 0 \/ left >= right
    THEN [left |-> left, right |-> right, candidate |-> candidate, rounds |-> rounds]
    ELSE LET mid == (left + right) \div 2 IN
         IF CallCounter(slf.token_counter, SliceFrom(msgs, mid + 1)) <= target
         THEN SW_binary_search_off_by_one(slf, msgs, target, left, mid, mid,
                                          iters - 1, rounds + 1)
         ELSE SW_binary_search_off_by_one(slf, msgs, target, mid + 1, right, candidate,
                                          iters - 1, rounds + 1)

\* mutant: left = mid where the code has left = mid + 1
RECURSIVE SW_binary_search_left_is_mid(_, _, _, _, _, _, _, _)
SW_binary_search_left_is_mid(slf, msgs, target, left, right, candidate, iters, rounds) ==
    IF iters = 0 \/ left >= right
    THEN [left |-> left, right |-> right, candidate |-> candidate, rounds |-> rounds]
    ELSE LET mid == (left + right) \div 2 IN
         IF CallCounter(slf.token_counter, SliceFrom(msgs, mid)) <= target
         THEN SW_binary_search_left_is_mid(slf, msgs, target, left, mid, mid,
                                           iters - 1, rounds + 1)
         ELSE SW_binary_search_left_is_mid(slf, msgs, target, mid, right, candidate,
                                           iters - 1, rounds + 1)

\* the binary search loop, from the state [left, right, cutoff_candidate] with
\* iters rounds of the for loop left; rounds counts the counter evaluations made
RECURSIVE SW_binary_search(_, _, _, _, _, _, _, _)
SW_binary_search(slf, msgs, target, left, right, candidate, iters, rounds) ==
    IF iters = 0 \/ left >= right
    THEN [left |-> left, right |-> right, candidate |-> candidate, rounds |-> rounds]
    ELSE LET mid == (left + right) \div 2 IN
         IF CallCounter(slf.token_counter, SliceFrom(msgs, mid)) <= target
         THEN SW_binary_search(slf, msgs, target, left, mid, mid, iters - 1, rounds + 1)
         ELSE SW_binary_search(slf, msgs, target, mid + 1, right, candidate,
                               iters - 1, rounds + 1)

\* mutant: the clamp to the last message is missing
SW_cutoff_candidate_no_clamp(slf, msgs, target) ==
    SW_binary_search(slf, msgs, target, 0, Len(msgs), Len(msgs),
                     bit_length(Len(msgs)) + 1, 0).candidate

\* cutoff_candidate after the loop and the clamp to the last message
SW_cutoff_candidate(slf, msgs, target) ==
    LET found == SW_binary_search(slf, msgs, target, 0, Len(msgs), Len(msgs),
                                  bit_length(Len(msgs)) + 1, 0).candidate
    IN  IF found >= Len(msgs) THEN Max(0, Len(msgs) - 1) ELSE found

SW_find_token_based_cutoff(slf, msgs, target) ==
    IF msgs = <<>> \/ CallCounter(slf.token_counter, msgs) <= target THEN 0
    ELSE SW_scan_down(msgs, SW_cutoff_candidate(slf, msgs, target))

SW_determine_cutoff_index(slf, msgs) ==
    IF slf.keep.kind = "messages" THEN SW_find_safe_cutoff(msgs, slf.keep.value)
    ELSE IF slf.keep.kind = "tokens" THEN SW_find_token_based_cutoff(slf, msgs, slf.keep.value)
    ELSE IF slf.keep.kind = "fraction" /\ Truthy(slf.max_input_tokens)
         THEN SW_find_token_based_cutoff(slf, msgs,
                 FractionThreshold(slf.max_input_tokens, slf.keep))
    ELSE SW_find_safe_cutoff(msgs, SW_DEFAULT_WINDOW_SIZE)

(***************************************************************************)
(* SummarizationProcessor (processor.py): its own copies of the same       *)
(* methods.                                                                *)
(***************************************************************************)
RECURSIVE SP_should_summarize_loop(_, _, _, _)
SP_should_summarize_loop(slf, msgs, tokens, n) ==
    IF n > Len(slf.trigger_conditions) THEN FALSE
    ELSE LET c == slf.trigger_conditions[n] IN
         IF c.kind = "messages" /\ Len(msgs) >= c.value THEN TRUE
         ELSE IF c.kind = "tokens" /\ tokens >= c.value THEN TRUE
         ELSE IF /\ c.kind = "fraction"
                 /\ Truthy(slf.max_input_tokens)
                 /\ tokens >= FractionThreshold(slf.max_input_tokens, c) THEN TRUE
         ELSE SP_should_summarize_loop(slf, msgs, tokens, n + 1)

\* mutant: the loop returns after its first condition
SP_should_summarize_first_only(slf, msgs, tokens) ==
    IF slf.trigger_conditions = <<>> THEN FALSE
    ELSE LET c == slf.trigger_conditions[1] IN
         \/ c.kind = "messages" /\ Len(msgs) >= c.value
         \/ c.kind = "tokens" /\ tokens >= c.value
         \/ /\ c.kind = "fraction"
            /\ Truthy(slf.max_input_tokens)
            /\ tokens >= FractionThreshold(slf.max_input_tokens, c)

SP_should_summarize(slf, msgs, tokens) ==
    IF slf.trigger_conditions = <<>> THEN FALSE
    ELSE SP_should_summarize_loop(slf, msgs, tokens, 1)

\* mutant: only the first later return of a call is compared with the cutoff
SP_is_safe_cutoff_point_first_return(msgs, cutoff) ==
    IF cutoff >= Len(msgs) THEN TRUE
    ELSE LET search_start == Max(0, cutoff - SP_SEARCH_RANGE_FOR_TOOL_PAIRS)
             search_end == Min(Len(msgs), cutoff + SP_SEARCH_RANGE_FOR_TOOL_PAIRS)
         IN  \A i \in search_start .. (search_end - 1) :
                LET msg == msgs[i + 1]
                    tool_call_ids == ToolCallIds(msg)
                IN  \/ msg.kind /= "response"
                    \/ tool_call_ids = {}
                    \/ \A j \in (i + 1) .. (Len(msgs) - 1) :
                          (/\ ReturnsAnyOf(msgs[j + 1], tool_call_ids)
                           /\ \A h \in (i + 1) .. (j - 1) :
                                 ~ReturnsAnyOf(msgs[h + 1], tool_call_ids))
                              => ((i < cutoff) = (j < cutoff))

SP_is_safe_cutoff_point(msgs, cutoff) ==
    IF cutoff >= Len(msgs) THEN TRUE
    ELSE LET search_start == Max(0, cutoff - SP_SEARCH_RANGE_FOR_TOOL_PAIRS)
             search_end == Min(Len(msgs), cutoff + SP_SEARCH_RANGE_FOR_TOOL_PAIRS)
         IN  \A i \in search_start .. (search_end - 1) :
                LET msg == msgs[i + 1]
                    tool_call_ids == ToolCallIds(msg)
                IN  \/ msg.kind /= "response"
                    \/ tool_call_ids = {}
                    \/ \A j \in (i + 1) .. (Len(msgs) - 1) :
                          ReturnsAnyOf(msgs[j + 1], tool_call_ids)
                              => ((i < cutoff) = (j < cutoff))

\* mutant: the scan gives up after the first unsafe index and returns 0
SP_scan_down_gives_up(msgs, i) ==
    IF i < 0 THEN 0
    ELSE IF SP_is_safe_cutoff_point(msgs, i) THEN i
    ELSE 0

\* for i in range(start, -1, -1): if safe(i): return i; then return 0
RECURSIVE SP_scan_down(_, _)
SP_scan_down(msgs, i) ==
    IF i < 0 THEN 0
    ELSE IF SP_is_safe_cutoff_point(msgs, i) THEN i
    ELSE SP_scan_down(msgs, i - 1)

\* mutant: target_cutoff is one too low, so that one message more is kept
SP_find_safe_cutoff_keeps_one_more(msgs, messages_to_keep) ==
    IF Len(msgs) <= messages_to_keep THEN 0
    ELSE SP_scan_down(msgs, Len(msgs) - messages_to_keep - 1)

SP_find_safe_cutoff(msgs, messages_to_keep) ==
    IF Len(msgs) <= messages_to_keep THEN 0
    ELSE SP_scan_down(msgs, Len(msgs) - messages_to_keep)

\* mutant: the budget test is < instead of <=
RECURSIVE SP_binary_search_strict(_, _, _, _, _, _, _, _)
SP_binary_search_strict(slf, msgs, target, left, right, candidate, iters, rounds) ==
    IF iters = 0 \/ left >= right
    THEN [left |-> left, right |-> right, candidate |-> candidate, rounds |-> rounds]
    ELSE LET mid == (left + right) \div 2 IN
         IF CallCounter(slf.token_counter, SliceFrom(msgs, mid)) < target
         THEN SP_binary_search_strict(slf, msgs, target, left, mid, mid,
                                      iters - 1, rounds + 1)
         ELSE SP_binary_search_strict(slf, msgs, target, mid + 1, right, candidate,
                                      iters - 1, rounds + 1)

\* the binary search loop, from the state [left, right, cutoff_candidate] with
\* iters rounds of the for loop left; rounds counts the counter evaluations made
RECURSIVE SP_binary_search(_, _, _, _, _, _, _, _)
SP_binary_search(slf, msgs, target, left, right, candidate, iters, rounds) ==
    IF iters = 0 \/ left >= right
    THEN [left |-> left, right |-> right, candidate |-> candidate, rounds |-> rounds]
    ELSE LET mid == (left + right) \div 2 IN
         IF CallCounter(slf.token_counter, SliceFrom(msgs, mid)) <= target
         THEN SP_binary_search(slf, msgs, target, left, mid, mid, iters - 1, rounds + 1)
         ELSE SP_binary_search(slf, msgs, target, mid + 1, right, candidate,
                               iters - 1, rounds + 1)

\* cutoff_candidate after the loop and the clamp to the last message
SP_cutoff_candidate(slf, msgs, target) ==
    LET found == SP_binary_search(slf, msgs, target, 0, Len(msgs), Len(msgs),
                                  bit_length(Len(msgs)) + 1, 0).candidate
    IN  IF found >= Len(msgs) THEN Max(0, Len(msgs) - 1) ELSE found

SP_find_token_based_cutoff(slf, msgs, target) ==
    IF msgs = <<>> \/ CallCounter(slf.token_counter, msgs) <= target THEN 0
    ELSE SP_scan_down(msgs, SP_cutoff_candidate(slf, msgs, target))

SP_determine_cutoff_index(slf, msgs) ==
    IF slf.keep.kind = "messages" THEN SP_find_safe_cutoff(msgs, slf.keep.value)
    ELSE IF slf.keep.kind = "tokens" THEN SP_find_token_based_cutoff(slf, msgs, slf.keep.value)
    ELSE IF slf.keep.kind = "fraction" /\ Truthy(slf.max_input_tokens)
         THEN SP_find_token_based_cutoff(slf, msgs,
                 FractionThreshold(slf.max_input_tokens, slf.keep))
    ELSE SP_find_safe_cutoff(msgs, SP_DEFAULT_MESSAGES_TO_KEEP)

(***************************************************************************)
(* Configuration: the ContextSize tuples and __post_init__'s validation.   *)
(***************************************************************************)
Messages(n) == [kind |-> "messages", value |-> n, den |-> 1]
Tokens(n) == [kind |-> "tokens", value |-> n, den |-> 1]
Fraction(num, den) == [kind |-> "fraction", value |-> num, den |-> den]

\* mutant: the fraction test is "0 < value < 1"
validate_context_size_exclusive(ctx) ==
    IF ctx.kind = "fraction" THEN 0 < ctx.value /\ ctx.value < ctx.den
    ELSE IF ctx.kind \in {"tokens", "messages"} THEN ctx.value > 0
    ELSE FALSE

\* _validate_context_size returns the tuple (TRUE) or raises ValueError (FALSE)
validate_context_size(ctx) ==
    IF ctx.kind = "fraction" THEN 0 < ctx.value /\ ctx.value <= ctx.den
    ELSE IF ctx.kind \in {"tokens", "messages"} THEN ctx.value > 0
    ELSE FALSE

\* __post_init__ completes without raising
post_init_ok(trig, kp, m) ==
    /\ \A n \in DOMAIN trig : validate_context_size(trig[n])
    /\ validate_context_size(kp)
    /\ LET requires_max_tokens == \/ \E n \in DOMAIN trig : trig[n].kind = "fraction"
                                  \/ kp.kind = "fraction"
       IN  ~(requires_max_tokens /\ m = None)

\* constructor arguments tried under Spec
TriggerInputs ==
    {<<>>, <<Messages(2)>>, <<Tokens(3)>>, <<Fraction(1, 2)>>, <<Tokens(4), Messages(3)>>}
KeepInputs == {Messages(1), Messages(2), Tokens(1), Tokens(3), Fraction(1, 2)}
MaxInputTokensInputs == {None, 0, 5}

\* a ContextSize tuple whose kind is none of the three
Unsupported(n) == [kind |-> "characters", value |-> n, den |-> 1]

\* constructor arguments at and beyond the boundaries _validate_context_size
\* tests, tried under Spec as well
BoundaryTriggerInputs ==
    {<<Messages(0)>>, <<Tokens(0)>>, <<Fraction(0, 1)>>, <<Fraction(3, 2)>>,
     <<Unsupported(3)>>, <<Messages(2), Tokens(-1)>>}
BoundaryKeepInputs ==
    {Messages(0), Tokens(-1), Fraction(0, 1), Fraction(3, 2), Fraction(1, 1),
     Unsupported(3)}

UsesFraction(trig, kp) ==
    kp.kind = "fraction" \/ \E n \in DOMAIN trig : trig[n].kind = "fraction"

\* constructor arguments tried under SpecLong
LongKeepInputs == {Messages(1), Tokens(2), Fraction(1, 2)}
LongMaxInputTokensInputs == {None, 5}

\* constructor arguments tried under SpecShared
SharedTriggerInputs == {<<Messages(1)>>, <<Tokens(2)>>}
SharedKeepInputs == {Messages(1), Tokens(1)}

TypeOK ==
    /\ messages \in Seq(GuardShapes)
    /\ pc \in {"idle", "awaiting", "done"}
    /\ strategy \in {"none", "sliding_window", "summarization"}
    /\ summarization_agent \in {None} \cup (1 .. MaxAgents)
    /\ agent \in {None} \cup (1 .. MaxAgents)
    /\ exc \in {"None", "Agent", "run"}
    /\ should \in BOOLEAN
    /\ raised \in {"None", "ValueError"}
    /\ raised = "None" <=> post_init_ok(trigger_conditions, keep, max_input_tokens)

(***************************************************************************)
(* The state machine: a constructed processor, a history the caller grows  *)
(* one message at a time, and calls of either processor on the history.    *)
(***************************************************************************)
InitFrame ==
    /\ pc = "idle"
    /\ strategy = "none"
    /\ total_tokens = 0
    /\ should = FALSE
    /\ cutoff_index = None
    /\ result = <<>>
    /\ agent_runs = 0
    /\ agent = None
    /\ exc = "None"

\* the history and the locals of the call the variables describe, as one value
Session ==
    [messages |-> messages, pc |-> pc, strategy |-> strategy,
     total_tokens |-> total_tokens, should |-> should,
     cutoff_index |-> cutoff_index, result |-> result,
     agent_runs |-> agent_runs, agent |-> agent, exc |-> exc]

\* a session that has an empty history and has not called the processor
IdleSession ==
    [messages |-> <<>>, pc |-> "idle", strategy |-> "none", total_tokens |-> 0,
     should |-> FALSE, cutoff_index |-> None, result |-> <<>>, agent_runs |-> 0,
     agent |-> None, exc |-> "None"]

\* the state after the constructor: the instance, or a ValueError and no
\* instance to call
Init ==
    /\ messages = <<>>
    /\ trigger_conditions \in TriggerInputs \cup BoundaryTriggerInputs
    /\ keep \in KeepInputs \cup BoundaryKeepInputs
    /\ max_input_tokens \in MaxInputTokensInputs
    /\ token_counter \in TokenCounters
    /\ raised = IF post_init_ok(trigger_conditions, keep, max_input_tokens)
                THEN "None" ELSE "ValueError"
    /\ UsesFraction(trigger_conditions, keep) \/ max_input_tokens = None
    /\ summarization_agent = None
    /\ agents_created = 0
    /\ other = IdleSession
    /\ InitFrame

InitLong ==
    /\ messages = <<>>
    /\ trigger_conditions = <<Messages(1)>>
    /\ keep \in LongKeepInputs
    /\ max_input_tokens \in LongMaxInputTokensInputs
    /\ token_counter = "count_tokens_approximately"
    /\ post_init_ok(trigger_conditions, keep, max_input_tokens)
    /\ raised = "None"
    /\ UsesFraction(trigger_conditions, keep) \/ max_input_tokens = None
    /\ summarization_agent = None
    /\ agents_created = 0
    /\ other = IdleSession
    /\ InitFrame

\* the caller appends one message between two calls of the processor
AppendMessage(maxlen) ==
    /\ raised = "None"
    /\ pc \in {"idle", "done"}
    /\ Len(messages) < maxlen
    /\ \E m \in MessageShapes : messages' = Append(messages, m)
    /\ pc' = "idle"
    /\ strategy' = "none"
    /\ total_tokens' = 0
    /\ should' = FALSE
    /\ cutoff_index' = None
    /\ result' = <<>>
    /\ agent_runs' = 0
    /\ agent' = None
    /\ exc' = "None"
    /\ UNCHANGED <<raised, config, summarization_agent, agents_created, other>>

\* mutant: the early return on "not self._should_trim(...)" is missing
SW_process_no_trigger_check(slf, msgs) ==
    LET tokens == CallCounter(slf.token_counter, msgs)
        shd == SW_should_trim(slf, msgs, tokens)
        cutoff == SW_determine_cutoff_index(slf, msgs)
    IN  IF cutoff <= 0
        THEN [messages |-> msgs, total_tokens |-> tokens, should |-> shd, cutoff_index |-> cutoff,
              result |-> msgs]
        ELSE [messages |-> msgs, total_tokens |-> tokens, should |-> shd, cutoff_index |-> cutoff,
              result |-> SliceFrom(msgs, cutoff)]

\* mutant: returns messages[:cutoff_index], the prefix, instead of the suffix
SW_process_keeps_prefix(slf, msgs) ==
    LET tokens == CallCounter(slf.token_counter, msgs)
        shd == SW_should_trim(slf, msgs, tokens)
        cutoff == SW_determine_cutoff_index(slf, msgs)
    IN  IF ~shd
        THEN [messages |-> msgs, total_tokens |-> tokens, should |-> FALSE, cutoff_index |-> None,
              result |-> msgs]
        ELSE IF cutoff <= 0
        THEN [messages |-> msgs, total_tokens |-> tokens, should |-> TRUE, cutoff_index |-> cutoff,
              result |-> msgs]
        ELSE [messages |-> msgs, total_tokens |-> tokens, should |-> TRUE, cutoff_index |-> cutoff,
              result |-> SliceTo(msgs, cutoff)]

\* mutant: the token total is cached on the instance, so that a call reuses
\* the total counted by the latest call of the other session
SW_process_cached_total(slf, msgs) ==
    LET tokens == IF other.total_tokens > 0 THEN other.total_tokens
                  ELSE CallCounter(slf.token_counter, msgs)
        shd == SW_should_trim(slf, msgs, tokens)
        cutoff == SW_determine_cutoff_index(slf, msgs)
    IN  IF ~shd
        THEN [messages |-> msgs, total_tokens |-> tokens, should |-> FALSE,
              cutoff_index |-> None, result |-> msgs]
        ELSE IF cutoff <= 0
        THEN [messages |-> msgs, total_tokens |-> tokens, should |-> TRUE,
              cutoff_index |-> cutoff, result |-> msgs]
        ELSE [messages |-> msgs, total_tokens |-> tokens, should |-> TRUE,
              cutoff_index |-> cutoff, result |-> SliceFrom(msgs, cutoff)]

\* mutant: the prefix is deleted from the list passed in ("del messages[:k]")
\* and that list is returned
SW_process_trims_in_place(slf, msgs) ==
    LET tokens == CallCounter(slf.token_counter, msgs)
        shd == SW_should_trim(slf, msgs, tokens)
        cutoff == SW_determine_cutoff_index(slf, msgs)
    IN  IF ~shd
        THEN [messages |-> msgs, total_tokens |-> tokens, should |-> FALSE,
              cutoff_index |-> None, result |-> msgs]
        ELSE IF cutoff <= 0
        THEN [messages |-> msgs, total_tokens |-> tokens, should |-> TRUE,
              cutoff_index |-> cutoff, result |-> msgs]
        ELSE [messages |-> SliceFrom(msgs, cutoff), total_tokens |-> tokens,
              should |-> TRUE, cutoff_index |-> cutoff,
              result |-> SliceFrom(msgs, cutoff)]

\* SlidingWindowProcessor.__call__ as a function of the instance and the list:
\* the list passed in as the call leaves it, the locals and the list returned
\* (cutoff_index stays unset on the early return)
SW_process(slf, msgs) ==
    LET tokens == CallCounter(slf.token_counter, msgs)
        shd == SW_should_trim(slf, msgs, tokens)
        cutoff == SW_determine_cutoff_index(slf, msgs)
    IN  IF ~shd
        THEN [messages |-> msgs, total_tokens |-> tokens, should |-> FALSE, cutoff_index |-> None,
              result |-> msgs]
        ELSE IF cutoff <= 0
        THEN [messages |-> msgs, total_tokens |-> tokens, should |-> TRUE, cutoff_index |-> cutoff,
              result |-> msgs]
        ELSE [messages |-> msgs, total_tokens |-> tokens, should |-> TRUE, cutoff_index |-> cutoff,
              result |-> SliceFrom(msgs, cutoff)]

SW_call ==
    /\ raised = "None"
    /\ pc \in {"idle", "done"}
    /\ \E out \in {SW_process(self, messages)} :
          /\ messages' = out.messages
          /\ total_tokens' = out.total_tokens
          /\ should' = out.should
          /\ cutoff_index' = out.cutoff_index
          /\ result' = out.result
    /\ pc' = "done"
    /\ strategy' = "sliding_window"
    /\ agent_runs' = 0
    /\ agent' = None
    /\ exc' = "None"
    /\ UNCHANGED <<raised, config, summarization_agent, agents_created, other>>

\* ModelRequest(parts=[SystemPromptPart(content=f"Summary of previous conversation:\n\n{summary}")])
SummaryMessage(summary) ==
    ModelRequest(<<[part_kind |-> "system-prompt", tool_call_id |-> "",
                    chars |-> 8, content |-> summary]>>)

\* mutant: the test after _determine_cutoff_index is "cutoff_index < 0"
SP_process_summarizes_at_zero(slf, msgs) ==
    LET tokens == CallCounter(slf.token_counter, msgs)
        shd == SP_should_summarize(slf, msgs, tokens)
        cutoff == SP_determine_cutoff_index(slf, msgs)
    IN  IF ~shd
        THEN [messages |-> msgs, total_tokens |-> tokens, should |-> FALSE, cutoff_index |-> None,
              summarizes |-> FALSE]
        ELSE IF cutoff < 0
        THEN [messages |-> msgs, total_tokens |-> tokens, should |-> TRUE, cutoff_index |-> cutoff,
              summarizes |-> FALSE]
        ELSE [messages |-> msgs, total_tokens |-> tokens, should |-> TRUE, cutoff_index |-> cutoff,
              summarizes |-> TRUE]

\* SummarizationProcessor.__call__ down to "if cutoff_index <= 0": its locals,
\* and whether it goes on to _create_summary
SP_process(slf, msgs) ==
    LET tokens == CallCounter(slf.token_counter, msgs)
        shd == SP_should_summarize(slf, msgs, tokens)
        cutoff == SP_determine_cutoff_index(slf, msgs)
    IN  IF ~shd
        THEN [messages |-> msgs, total_tokens |-> tokens, should |-> FALSE, cutoff_index |-> None,
              summarizes |-> FALSE]
        ELSE IF cutoff <= 0
        THEN [messages |-> msgs, total_tokens |-> tokens, should |-> TRUE, cutoff_index |-> cutoff,
              summarizes |-> FALSE]
        ELSE [messages |-> msgs, total_tokens |-> tokens, should |-> TRUE, cutoff_index |-> cutoff,
              summarizes |-> TRUE]

\* mutant: when the summary is the error text the input list is returned as it is
SP_result_error_returns_input(msgs, cutoff, summary) ==
    IF summary = "Error generating summary" THEN msgs
    ELSE <<SummaryMessage(summary)>> \o SliceFrom(msgs, cutoff)

\* mutant: the summary message is appended after the preserved messages
SP_result_summary_last(msgs, cutoff, summary) ==
    SliceFrom(msgs, cutoff) \o <<SummaryMessage(summary)>>

\* mutant: the summary message is put in front of the whole input list
SP_result_keeps_all(msgs, cutoff, summary) ==
    <<SummaryMessage(summary)>> \o msgs

\* return [summary_message, *preserved_messages]
SP_result(msgs, cutoff, summary) ==
    <<SummaryMessage(summary)>> \o SliceFrom(msgs, cutoff)

\* mutant: the "is None" test is missing, every call builds a new Agent
get_summarization_agent_always_new(current, created) ==
    [summarization_agent |-> Min(created + 1, MaxAgents),
     agents_created |-> Min(created + 1, MaxAgents)]

\* _get_summarization_agent when Agent(...) does not raise: the handle it
\* returns (an Agent is named by its number of creation) and the number of
\* Agents created so far
get_summarization_agent(current, created) ==
    IF current = None
    THEN [summarization_agent |-> Min(created + 1, MaxAgents),
          agents_created |-> Min(created + 1, MaxAgents)]
    ELSE [summarization_agent |-> current, agents_created |-> created]

\* SummarizationProcessor.__call__ up to its first suspension: it returns at
\* once when nothing is cut, when there is nothing to summarize or when
\* Agent(...) raises inside _create_summary's try, and otherwise suspends in
\* agent.run. There is no await between the test and the assignment of
\* _get_summarization_agent, so the step is atomic for every other coroutine.
SP_call ==
    /\ raised = "None"
    /\ pc \in {"idle", "done"}
    /\ strategy' = "summarization"
    /\ UNCHANGED <<raised, config, other>>
    /\ \E out \in {SP_process(self, messages)} :
          /\ messages' = out.messages
          /\ total_tokens' = out.total_tokens
          /\ should' = out.should
          /\ cutoff_index' = out.cutoff_index
          /\ IF ~out.summarizes
             THEN /\ result' = out.messages
                  /\ pc' = "done"
                  /\ agent_runs' = 0
                  /\ agent' = None
                  /\ exc' = "None"
                  /\ UNCHANGED <<summarization_agent, agents_created>>
             ELSE IF SliceTo(messages, out.cutoff_index) = <<>>
             THEN /\ result' = SP_result(messages, out.cutoff_index,
                                         "No previous conversation history.")
                  /\ pc' = "done"
                  /\ agent_runs' = 0
                  /\ agent' = None
                  /\ exc' = "None"
                  /\ UNCHANGED <<summarization_agent, agents_created>>
             ELSE \/ /\ summarization_agent = None
                     /\ result' = SP_result(messages, out.cutoff_index,
                                            "Error generating summary")
                     /\ pc' = "done"
                     /\ agent_runs' = 0
                     /\ agent' = None
                     /\ exc' = "Agent"
                     /\ UNCHANGED <<summarization_agent, agents_created>>
                  \/ \E got \in {get_summarization_agent(summarization_agent,
                                                          agents_created)} :
                        /\ summarization_agent' = got.summarization_agent
                        /\ agents_created' = got.agents_created
                        /\ agent' = got.summarization_agent
                        /\ exc' = "None"
                        /\ result' = <<>>
                        /\ pc' = "awaiting"
                        /\ agent_runs' = 1

\* agent.run returns: _create_summary returns result.output.strip()
AgentRunReturns ==
    /\ pc = "awaiting"
    /\ result' = SP_result(messages, cutoff_index, "summary")
    /\ pc' = "done"
    /\ UNCHANGED <<messages, raised, config, summarization_agent, agents_created,
                   strategy, total_tokens, should, cutoff_index, agent_runs,
                   agent, exc, other>>

\* mutant: the except clause calls agent.run once more instead of returning
AgentRunRaises_retries ==
    /\ pc = "awaiting"
    /\ result' = <<>>
    /\ pc' = "awaiting"
    /\ exc' = "run"
    /\ agent_runs' = Min(agent_runs + 1, MaxAgents)
    /\ UNCHANGED <<messages, raised, config, summarization_agent, agents_created,
                   strategy, total_tokens, should, cutoff_index, agent, other>>

\* agent.run raises: the except clause returns the error text as the summary
AgentRunRaises ==
    /\ pc = "awaiting"
    /\ result' = SP_result(messages, cutoff_index, "Error generating summary")
    /\ pc' = "done"
    /\ exc' = "run"
    /\ UNCHANGED <<messages, raised, config, summarization_agent, agents_created,
                   strategy, total_tokens, should, cutoff_index, agent_runs,
                   agent, other>>

\* the event loop resumes the other session's coroutine: every state of the
\* model is between two calls or at the await of agent.run
Switch ==
    /\ raised = "None"
    /\ messages' = other.messages
    /\ pc' = other.pc
    /\ strategy' = other.strategy
    /\ total_tokens' = other.total_tokens
    /\ should' = other.should
    /\ cutoff_index' = other.cutoff_index
    /\ result' = other.result
    /\ agent_runs' = other.agent_runs
    /\ agent' = other.agent
    /\ exc' = other.exc
    /\ other' = Session
    /\ UNCHANGED <<raised, config, summarization_agent, agents_created>>

\* one instance shared by two sessions
InitShared ==
    /\ messages = <<>>
    /\ trigger_conditions \in SharedTriggerInputs
    /\ keep \in SharedKeepInputs
    /\ max_input_tokens = None
    /\ token_counter = "count_tokens_approximately"
    /\ post_init_ok(trigger_conditions, keep, max_input_tokens)
    /\ raised = "None"
    /\ summarization_agent = None
    /\ agents_created = 0
    /\ other = IdleSession
    /\ InitFrame

Next ==
    \/ AppendMessage(MaxLen)
    \/ SW_call
    \/ SP_call
    \/ AgentRunReturns
    \/ AgentRunRaises

NextLong ==
    \/ AppendMessage(MaxLongLen)
    \/ SW_call
    \/ SP_call
    \/ AgentRunReturns
    \/ AgentRunRaises

NextShared ==
    \/ AppendMessage(MaxSharedLen)
    \/ SW_call
    \/ SP_call
    \/ AgentRunReturns
    \/ AgentRunRaises
    \/ Switch

\* a processor handed a ready-made history: every short history over
\* GuardShapes, a call and a return from two to one more than the guard's
\* window apart, alone or between plain messages, and plain histories longer
\* than SP_DEFAULT_MESSAGES_TO_KEEP
GuardHistories == UNION {[1 .. n -> GuardShapes] : n \in 0 .. MaxGuardLen}

PairHistories ==
    {around \o <<c>> \o [i \in 1 .. n |-> UserMsg] \o <<r>> \o around :
        around \in {<<>>, <<UserMsg>>},
        c \in {CallMsg, CallNoIdMsg}, r \in {ReturnMsg, ReturnNoIdMsg},
        n \in 1 .. (SP_SEARCH_RANGE_FOR_TOOL_PAIRS + 1)}

PlainHistories == {[i \in 1 .. n |-> UserMsg] : n \in (MaxDeepLen - 1) .. MaxDeepLen}

InputKeepInputs == {Messages(1), Tokens(2), Fraction(1, 2)}

InitInputs ==
    /\ messages \in GuardHistories \cup PairHistories \cup PlainHistories
    /\ trigger_conditions = <<Messages(1)>>
    /\ keep \in InputKeepInputs
    /\ max_input_tokens \in MaxInputTokensInputs
    /\ token_counter \in InputTokenCounters
    /\ post_init_ok(trigger_conditions, keep, max_input_tokens)
    /\ raised = "None"
    /\ UsesFraction(trigger_conditions, keep) \/ max_input_tokens = None
    /\ summarization_agent = None
    /\ agents_created = 0
    /\ other = IdleSession
    /\ InitFrame

NextInputs ==
    \/ SW_call
    \/ SP_call
    \/ AgentRunReturns
    \/ AgentRunRaises

Spec == Init /\ [][Next]_vars

SpecInputs == InitInputs /\ [][NextInputs]_vars

SpecLong == InitLong /\ [][NextLong]_vars

SpecShared == InitShared /\ [][NextShared]_vars

(***************************************************************************)
(* Vocabulary of the properties.                                           *)
(***************************************************************************)
\* a call of either processor has returned
Returned == pc = "done" /\ strategy /= "none"

\* the call evaluated the trigger to true and resolved a cutoff
Resolved == strategy /= "none" /\ should

\* the call trims: trigger satisfied and cutoff k > 0
Trims == Resolved /\ cutoff_index > 0

Positions(msgs) == 0 .. (Len(msgs) - 1)

\* the CallPair relation: the response at position c carries a call with a
\* non-empty call-id whose first later return is the request at position r
IsPair(msgs, c, r) ==
    /\ c \in Positions(msgs)
    /\ r \in Positions(msgs)
    /\ c < r
    /\ msgs[c + 1].kind = "response"
    /\ \E id \in ToolCallIds(msgs[c + 1]) :
          /\ ReturnsAnyOf(msgs[r + 1], {id})
          /\ \A j \in (c + 1) .. (r - 1) : ~ReturnsAnyOf(msgs[j + 1], {id})

\* cutoff k separates positions c and r
Splits(k, c, r) == (c < k) /= (r < k)

\* C1: the cutoff chosen by the discard strategy splits no call/return pair
\* anywhere in the log: for every call at c and its matching return at r,
\* (c < k) = (r < k), however far the call lies from the cutoff.
C1_NoSplitPairAnywhere ==
    (strategy = "sliding_window" /\ Trims) =>
        \A c \in Positions(messages) : \A r \in Positions(messages) :
            IsPair(messages, c, r) => ~Splits(cutoff_index, c, r)

\* C2: the cutoff k resolved for any retain spec never separates a call/return
\* pair that lies within the guard's window radius of k, i.e. whose call is at
\* a position c with k - 5 <= c < k + 5.
C2_NoSplitPairInWindow ==
    Resolved =>
        \A c \in Positions(messages) : \A r \in Positions(messages) :
            /\ IsPair(messages, c, r)
            /\ cutoff_index - SW_SEARCH_RANGE_FOR_TOOL_PAIRS <= c
            /\ c < cutoff_index + SW_SEARCH_RANGE_FOR_TOOL_PAIRS
            => ~Splits(cutoff_index, c, r)

\* C2 witness: the guard moved a message-count cutoff below its target
\* because the target would have split a pair inside the window
C2_Witness ==
    /\ Trims
    /\ keep.kind = "messages"
    /\ cutoff_index < Len(messages) - keep.value
    /\ \E c \in Positions(messages) : \E r \in Positions(messages) :
          /\ IsPair(messages, c, r)
          /\ Splits(Len(messages) - keep.value, c, r)
          /\ cutoff_index <= c

\* C3: for both strategies, whenever the trigger decision is false (in
\* particular with no trigger configured) the call returns exactly the input
\* list, without suspending and without a call of the summarization agent.
C3_NoOpIsIdentity ==
    LET tokens == CallCounter(token_counter, messages)
        decision == IF strategy = "sliding_window"
                    THEN SW_should_trim(self, messages, tokens)
                    ELSE SP_should_summarize(self, messages, tokens)
    IN  /\ (strategy /= "none" /\ trigger_conditions = <<>>) => ~decision
        /\ (strategy /= "none" /\ ~decision) =>
              /\ pc = "done"
              /\ result = messages
              /\ Len(result) = Len(messages)
              /\ agent_runs = 0

\* C3 witness: a call of the summarization processor on a non-empty history
\* whose configured trigger is not satisfied
C3_Witness ==
    /\ Returned
    /\ strategy = "summarization"
    /\ trigger_conditions /= <<>>
    /\ ~should
    /\ Len(messages) >= 1
    /\ result = messages

\* the counter of the instance applied to messages[k:]
SuffixTokens(msgs, k) == CallCounter(token_counter, SliceFrom(msgs, k))

\* the counter is monotone under suffix growth on this history
MonotoneCounter(msgs) ==
    \A i \in 0 .. Len(msgs) : \A j \in i .. Len(msgs) :
        SuffixTokens(msgs, i) >= SuffixTokens(msgs, j)

\* targetTokens of the retain spec: n for Tokens(n), floor(max_input_tokens * f)
\* for Fraction(f)
TargetTokens ==
    IF keep.kind = "fraction" THEN (max_input_tokens * keep.value) \div keep.den
    ELSE keep.value

\* the smallest k of the set ks whose suffix fits the target (ks holds one)
SmallestFitting(msgs, target, ks) ==
    CHOOSE k \in ks :
        /\ SuffixTokens(msgs, k) <= target
        /\ \A j \in ks : j < k => SuffixTokens(msgs, j) > target

\* the guard of the processor of the current call
IsSafeHere(msgs, k) ==
    IF strategy = "sliding_window" THEN SW_is_safe_cutoff_point(msgs, k)
    ELSE SP_is_safe_cutoff_point(msgs, k)

\* C4 as claimed: with a Tokens or Fraction retain spec and a counter monotone
\* under suffix growth, whenever counter(messages) exceeds targetTokens the
\* kept suffix fits the budget, also after the guard moved the cutoff down
\* and also when the last unit alone exceeds the target.
C4_SuffixFitsBudget ==
    (/\ Resolved
     /\ keep.kind \in {"tokens", "fraction"}
     /\ MonotoneCounter(messages)
     /\ total_tokens > TargetTokens) =>
        SuffixTokens(messages, cutoff_index) <= TargetTokens

\* C4 as amended: the kept suffix fits the budget provided the last unit alone
\* fits it and the smallest fitting index is a safe cutoff point, so that the
\* guard leaves it in place (and, for Fraction, max_input_tokens is not 0).
C4_SuffixFitsBudgetWhenGuardIdle ==
    (/\ Resolved
     /\ keep.kind \in {"tokens", "fraction"}
     /\ keep.kind = "fraction" => max_input_tokens /= 0
     /\ MonotoneCounter(messages)
     /\ total_tokens > TargetTokens
     /\ SuffixTokens(messages, Len(messages) - 1) <= TargetTokens
     /\ IsSafeHere(messages,
                   SmallestFitting(messages, TargetTokens, 0 .. (Len(messages) - 1)))) =>
        SuffixTokens(messages, cutoff_index) <= TargetTokens

\* C4 witness: a history with a call/return pair, over budget, trimmed by a
\* token-budget cutoff that the guard left in place
C4_Witness ==
    /\ Trims
    /\ keep.kind \in {"tokens", "fraction"}
    /\ MonotoneCounter(messages)
    /\ total_tokens > TargetTokens
    /\ SuffixTokens(messages, Len(messages) - 1) <= TargetTokens
    /\ IsSafeHere(messages,
                  SmallestFitting(messages, TargetTokens, 0 .. (Len(messages) - 1)))
    /\ \E c \in Positions(messages) : \E r \in Positions(messages) : IsPair(messages, c, r)
    /\ cutoff_index >= 2
    /\ SuffixTokens(messages, cutoff_index) = TargetTokens

\* a log that contains no calls
NoCalls(msgs) == \A i \in DOMAIN msgs : ToolCallIds(msgs[i]) = {}

\* C5 as claimed: on a history without calls and with a monotone counter the
\* token-budget search returns the smallest k in 0 .. len(messages) with
\* counter(messages[k:]) <= target (0 for the empty and for a fitting history).
C5_SmallestCutoffUpToLen ==
    (NoCalls(messages) /\ MonotoneCounter(messages)) =>
        \A target \in 0 .. MaxTokens :
            LET k == SmallestFitting(messages, target, 0 .. Len(messages))
            IN  /\ SP_find_token_based_cutoff(self, messages, target) = k
                /\ SW_find_token_based_cutoff(self, messages, target) = k

\* what the search returns: the smallest fitting k below len(messages), and
\* len(messages) - 1 when not even the last unit fits
C5_Expected(msgs, target) ==
    IF msgs = <<>> THEN 0
    ELSE IF \E k \in Positions(msgs) : SuffixTokens(msgs, k) <= target
    THEN SmallestFitting(msgs, target, Positions(msgs))
    ELSE Len(msgs) - 1

\* C5 as amended: the search returns the smallest k in 0 .. len(messages) - 1
\* with counter(messages[k:]) <= target, and len(messages) - 1 when no such k
\* exists (the last unit is always kept); 0 for the empty and for a fitting
\* history. The cutoff a call resolves for Tokens(n) is that index.
C5_SmallestCutoffKeepingLast ==
    (NoCalls(messages) /\ MonotoneCounter(messages)) =>
        /\ \A target \in 0 .. MaxTokens :
              /\ SP_find_token_based_cutoff(self, messages, target)
                    = C5_Expected(messages, target)
              /\ SW_find_token_based_cutoff(self, messages, target)
                    = C5_Expected(messages, target)
              /\ SuffixTokens(messages, 0) <= target =>
                    SP_find_token_based_cutoff(self, messages, target) = 0
        /\ (Resolved /\ keep.kind = "tokens") =>
              cutoff_index = C5_Expected(messages, keep.value)

\* C5 witness: a call resolved a token-budget cutoff strictly inside a history
\* without calls, the suffix meeting the target exactly
C5_Witness ==
    /\ Trims
    /\ strategy = "summarization"
    /\ keep.kind = "tokens"
    /\ NoCalls(messages)
    /\ MonotoneCounter(messages)
    /\ cutoff_index >= 1
    /\ cutoff_index < Len(messages) - 1
    /\ SuffixTokens(messages, cutoff_index) = keep.value

\* C6: for every history and every valid configuration (any retain kind, any
\* counter), the resolved cutoff k satisfies 0 <= k <= len(messages).
C6_CutoffBounded ==
    /\ SW_determine_cutoff_index(self, messages) \in 0 .. Len(messages)
    /\ SP_determine_cutoff_index(self, messages) \in 0 .. Len(messages)
    /\ Resolved => cutoff_index \in 0 .. Len(messages)

\* C6 witness: a token-budget cutoff above 0 resolved with the non-monotone counter
C6_Witness ==
    /\ Trims
    /\ keep.kind \in {"tokens", "fraction"}
    /\ token_counter = "head_counter"
    /\ cutoff_index = Len(messages) - 1

\* C7: for a fixed history the message-based cutoff is monotone non-increasing
\* in the retained count: n1 <= n2 implies cutoff(n2) <= cutoff(n1). Stated
\* on every history as the caller hands it over, for both processors, and on
\* the cutoff a call resolved: no larger count gives a cutoff above it.
C7_MessageCutoffMonotone ==
    /\ strategy = "none" =>
          LET sw == [n \in 1 .. MaxKeep |-> SW_find_safe_cutoff(messages, n)]
              sp == [n \in 1 .. MaxKeep |-> SP_find_safe_cutoff(messages, n)]
          IN  \A n1 \in 1 .. MaxKeep : \A n2 \in n1 .. MaxKeep :
                  sw[n2] <= sw[n1] /\ sp[n2] <= sp[n1]
    /\ (Returned /\ should /\ keep.kind = "messages") =>
          \A n \in keep.value .. MaxKeep :
              IF strategy = "sliding_window"
              THEN SW_find_safe_cutoff(messages, n) <= cutoff_index
              ELSE SP_find_safe_cutoff(messages, n) <= cutoff_index

\* C7 witness: a history with a call/return pair where keeping 1 and keeping 2
\* messages resolve to different cutoffs, the guard having moved one of them
C7_Witness ==
    /\ Trims
    /\ keep.kind = "messages"
    /\ keep.value = 1
    /\ SW_find_safe_cutoff(messages, 2) < cutoff_index
    /\ SW_find_safe_cutoff(messages, 2) < Len(messages) - 2

\* C8: when the discard strategy trims (trigger satisfied, cutoff k > 0) its
\* output is exactly messages[k:]: the units at positions k .. len - 1 in
\* their order, so the output length is len(messages) - k.
C8_DiscardReturnsSuffix ==
    (strategy = "sliding_window" /\ Trims) =>
        /\ Len(result) = Len(messages) - cutoff_index
        /\ \A j \in 1 .. Len(result) : result[j] = messages[cutoff_index + j]

\* C8 witness: a trim that drops two units and keeps two
C8_Witness ==
    /\ strategy = "sliding_window"
    /\ Trims
    /\ cutoff_index = 2
    /\ Len(result) = 2

\* the trigger semantics C9 states for Messages(n) and Tokens(n)
C9_Satisfied(ctx, msgs, tokens) ==
    \/ ctx.kind = "messages" /\ Len(msgs) >= ctx.value
    \/ ctx.kind = "tokens" /\ tokens >= ctx.value

\* C9: the trigger decision is false for the empty trigger list and otherwise
\* true exactly when some configured trigger is satisfied, Messages(n) by
\* len(messages) >= n and Tokens(n) by total_tokens >= n (both inclusive).
C9_ShouldTrimIsAnyTrigger ==
    (\A n \in DOMAIN trigger_conditions : trigger_conditions[n].kind /= "fraction") =>
        /\ \A tokens \in 0 .. MaxTokens :
              LET expected == \E n \in DOMAIN trigger_conditions :
                                  C9_Satisfied(trigger_conditions[n], messages, tokens)
              IN  /\ SW_should_trim(self, messages, tokens) = expected
                  /\ SP_should_summarize(self, messages, tokens) = expected
        /\ strategy /= "none" =>
              should = \E n \in DOMAIN trigger_conditions :
                          C9_Satisfied(trigger_conditions[n], messages, total_tokens)

\* C9 witness: the second trigger of a list fires at its threshold exactly,
\* the first one being unsatisfied
C9_Witness ==
    /\ strategy = "sliding_window"
    /\ should
    /\ Len(trigger_conditions) = 2
    /\ ~C9_Satisfied(trigger_conditions[1], messages, total_tokens)
    /\ trigger_conditions[2].kind = "messages"
    /\ Len(messages) = trigger_conditions[2].value

\* C10: for every validated configuration (any supplied max_input_tokens,
\* including 0) a Fraction(f) trigger is satisfied exactly when
\* total_tokens >= floor(max_input_tokens * f).
C10_FractionTrigger ==
    (/\ strategy /= "none"
     /\ Len(trigger_conditions) = 1
     /\ trigger_conditions[1].kind = "fraction") =>
        should = (total_tokens >=
                    (max_input_tokens * trigger_conditions[1].value)
                        \div trigger_conditions[1].den)

(***************************************************************************)
(* Construction.                                                           *)
(***************************************************************************)
\* the trigger specs and the retain spec the constructor was given
ConfiguredSpecs == {trigger_conditions[n] : n \in DOMAIN trigger_conditions} \cup {keep}

\* the configurations the documentation lists as configuration errors
ConfigurationError ==
    \E c \in ConfiguredSpecs :
        \/ c.kind \notin {"messages", "tokens", "fraction"}
        \/ c.kind \in {"messages", "tokens"} /\ c.value <= 0
        \/ c.kind = "fraction" /\ ~(0 < c.value /\ c.value <= c.den)
        \/ c.kind = "fraction" /\ max_input_tokens = None

\* C11: construction raises a configuration error exactly for an unknown
\* kind, a Messages/Tokens value <= 0, a Fraction outside (0, 1] or a Fraction
\* without max_input_tokens; every other configuration constructs, and a call
\* of a constructed processor never ends in a configuration error.
C11_ConfigurationErrorIff ==
    /\ (raised = "ValueError") <=> ConfigurationError
    /\ strategy /= "none" => raised = "None"

\* C11 witness: construction with no trigger and a retain Fraction of exactly
\* 1, valid in itself, was refused because max_input_tokens is absent
C11_Witness ==
    /\ raised = "ValueError"
    /\ trigger_conditions = <<>>
    /\ keep = Fraction(1, 1)
    /\ max_input_tokens = None

(***************************************************************************)
(* Message-count cutoffs and the outputs of the two strategies.            *)
(***************************************************************************)
\* a log that contains no call/return pair
NoPairs(msgs) ==
    \A c \in Positions(msgs) : \A r \in Positions(msgs) : ~IsPair(msgs, c, r)

\* the last n units of msgs, in order
LastUnits(msgs, n) == [j \in 1 .. n |-> msgs[Len(msgs) - n + j]]

\* C12: with retain = Messages(n) and a history without call/return pairs the
\* resolved cutoff is max(0, len(messages) - n); hence when the trigger fires
\* and len(messages) > n the discard strategy returns exactly the last n units.
C12_MessageCutoffWithoutPairs ==
    NoPairs(messages) =>
        /\ strategy = "none" =>
              \A n \in 1 .. MaxKeep :
                  /\ SW_find_safe_cutoff(messages, n) = Max(0, Len(messages) - n)
                  /\ SP_find_safe_cutoff(messages, n) = Max(0, Len(messages) - n)
        /\ (Resolved /\ keep.kind = "messages") =>
              /\ cutoff_index = Max(0, Len(messages) - keep.value)
              /\ (strategy = "sliding_window" /\ Len(messages) > keep.value) =>
                    /\ Len(result) = keep.value
                    /\ result = LastUnits(messages, keep.value)

\* C12 witness: the discard strategy returned the last 2 of 4 units of a
\* history that holds a call but no call/return pair
C12_Witness ==
    /\ strategy = "sliding_window"
    /\ Trims
    /\ keep = Messages(2)
    /\ Len(messages) = 4
    /\ NoPairs(messages)
    /\ ~NoCalls(messages)
    /\ result = LastUnits(messages, 2)

\* msg is a summary unit: a request carrying a system-prompt part
IsSummaryUnit(msg) ==
    /\ msg.kind = "request"
    /\ \E q \in DOMAIN msg.parts : msg.parts[q].part_kind = "system-prompt"

\* C13: for both strategies, when the trigger is satisfied but the resolved
\* cutoff is 0, the call returns the history unchanged; the summarization
\* processor does not run the agent and adds no summary unit.
C13_ZeroCutoffIsIdentity ==
    (Resolved /\ cutoff_index <= 0) =>
        /\ pc = "done"
        /\ result = messages
        /\ agent_runs = 0
        /\ \A j \in DOMAIN result : ~IsSummaryUnit(result[j])

\* C13 witness: the summarization processor's trigger fired on a history
\* longer than the retained count, and the guard fell back to cutoff 0
C13_Witness ==
    /\ Returned
    /\ strategy = "summarization"
    /\ should
    /\ keep.kind = "messages"
    /\ Len(messages) > keep.value
    /\ cutoff_index = 0
    /\ result = messages

\* C14: if the summarization agent fails, at its creation or in agent.run,
\* the call does not raise: it returns [summary_message, *messages[k:]] whose
\* first unit carries the error text, and the retained suffix is the one a
\* successful call returns.
C14_FailureDegrades ==
    /\ (strategy = "summarization" /\ exc /= "None") =>
          /\ pc = "done"
          /\ cutoff_index > 0
          /\ Len(result) = Len(messages) - cutoff_index + 1
          /\ IsSummaryUnit(result[1])
          /\ result[1].parts[1].content = "Error generating summary"
          /\ Tail(result) = SliceFrom(messages, cutoff_index)
    /\ (strategy = "summarization" /\ Trims /\ pc = "done" /\ exc = "None") =>
          /\ IsSummaryUnit(result[1])
          /\ Tail(result) = SliceFrom(messages, cutoff_index)

\* C14 witness: agent.run raised in a call that keeps two units
C14_Witness ==
    /\ strategy = "summarization"
    /\ exc = "run"
    /\ pc = "done"
    /\ agent_runs = 1
    /\ Len(result) = 3
    /\ result[1].parts[1].content = "Error generating summary"

\* C15: when the summarization processor trims with cutoff k > 0 its output is
\* one synthetic system-prompt request followed by messages[k:] in order: the
\* length is len(messages) - k + 1, the synthetic unit is at position 0, and
\* every later position j holds the unit of position k + j - 1, so that no
\* position of messages[:k] is carried over.
C15_SummaryThenSuffix ==
    (strategy = "summarization" /\ Trims /\ pc = "done") =>
        /\ Len(result) = Len(messages) - cutoff_index + 1
        /\ IsSummaryUnit(result[1])
        /\ Len(result[1].parts) = 1
        /\ \A j \in 1 .. (Len(messages) - cutoff_index) :
              result[j + 1] = messages[cutoff_index + j]

\* C15 witness: agent.run returned and the call replaced two units by the summary
C15_Witness ==
    /\ strategy = "summarization"
    /\ Trims
    /\ pc = "done"
    /\ exc = "None"
    /\ cutoff_index = 2
    /\ Len(messages) = 4
    /\ result[1].parts[1].content = "summary"

\* a step of a call of either processor
ProcessStep == SW_call \/ SP_call \/ AgentRunReturns \/ AgentRunRaises

\* C17: no step of a call of either processor (no-op, trim, agent failure)
\* changes the caller's history: same length, same units at the same
\* positions; trigger, keep and max_input_tokens are unchanged as well.
C17_InputNotMutated ==
    [][ProcessStep =>
          /\ Len(messages') = Len(messages)
          /\ \A j \in DOMAIN messages : messages'[j] = messages[j]
          /\ trigger_conditions' = trigger_conditions
          /\ keep' = keep
          /\ max_input_tokens' = max_input_tokens]_vars

\* C17 witness: the discard strategy returned a shorter list and the caller's
\* history still has its four units
C17_Witness ==
    /\ strategy = "sliding_window"
    /\ Trims
    /\ pc = "done"
    /\ Len(messages) = 4
    /\ Len(result) < Len(messages)

\* C19: for every validated configuration with retain = Fraction(f) (any
\* supplied max_input_tokens, including 0) the resolved cutoff is the
\* token-budget cutoff for the target floor(max_input_tokens * f); there is
\* no fall-back to a message-count cutoff.
C19_FractionRetainUsesTokenSearch ==
    (Resolved /\ keep.kind = "fraction") =>
        LET target == (max_input_tokens * keep.value) \div keep.den
        IN  cutoff_index = IF strategy = "sliding_window"
                           THEN SW_find_token_based_cutoff(self, messages, target)
                           ELSE SP_find_token_based_cutoff(self, messages, target)

\* C20: with retain = Messages(n) the discard strategy returns at least
\* min(n, len(messages)) units, and they are the most recent ones, also when
\* the guard moves the cutoff below len(messages) - n.
C20_KeepsAtLeastN ==
    (strategy = "sliding_window" /\ pc = "done" /\ keep.kind = "messages") =>
        /\ Len(result) >= Min(keep.value, Len(messages))
        /\ Len(result) <= Len(messages)
        /\ result = LastUnits(messages, Len(result))

\* C20 witness: the guard moved the cutoff below len(messages) - n, so that
\* more than n units were kept
C20_Witness ==
    /\ strategy = "sliding_window"
    /\ Trims
    /\ keep.kind = "messages"
    /\ cutoff_index < Len(messages) - keep.value
    /\ Len(result) > keep.value
    /\ \E c \in Positions(messages) : \E r \in Positions(messages) :
          IsPair(messages, c, r) /\ Splits(Len(messages) - keep.value, c, r)

(***************************************************************************)
(* One instance shared by two sessions (SpecShared).                       *)
(***************************************************************************)
\* C16: when concurrent calls share one summarization processor, at most one
\* Agent is ever created, under every interleaving of the calls at their
\* awaits, and every call that runs an agent runs that one.
C16_SingleHandle ==
    /\ agents_created <= 1
    /\ pc = "awaiting" => (agent /= None /\ agent = summarization_agent)
    /\ other.pc = "awaiting" => (other.agent /= None /\ other.agent = summarization_agent)
    /\ (agent /= None /\ other.agent /= None) => agent = other.agent

\* C16 witness: two calls are suspended in agent.run at the same time, on the
\* one Agent the first of them created
C16_Witness ==
    /\ pc = "awaiting"
    /\ other.pc = "awaiting"
    /\ agents_created = 1
    /\ agent = other.agent
    /\ agent = summarization_agent

\* the call recorded in session s computed what the methods compute from the
\* configuration and the history of s alone
HistoryIndependent(s) ==
    s.strategy /= "none" =>
        LET tokens == CallCounter(token_counter, s.messages)
            shd == IF s.strategy = "sliding_window"
                   THEN SW_should_trim(self, s.messages, tokens)
                   ELSE SP_should_summarize(self, s.messages, tokens)
            k == IF s.strategy = "sliding_window"
                 THEN SW_determine_cutoff_index(self, s.messages)
                 ELSE SP_determine_cutoff_index(self, s.messages)
        IN  /\ s.should = shd
            /\ shd => s.cutoff_index = k
            /\ s.strategy = "sliding_window" =>
                  s.result = IF shd /\ k > 0 THEN SliceFrom(s.messages, k)
                             ELSE s.messages

\* C18: the engine holds no cross-call state: for a fixed configuration the
\* trigger decision and the cutoff index of a call (and the whole output of
\* the discard strategy) depend on its history alone, whatever calls on
\* other histories preceded it or are interleaved with it; two sessions that
\* called the same processor on equal histories got the same.
C18_NoCrossCallState ==
    /\ HistoryIndependent(Session)
    /\ HistoryIndependent(other)
    /\ (strategy /= "none" /\ other.strategy = strategy /\ other.messages = messages) =>
          /\ should = other.should
          /\ cutoff_index = other.cutoff_index
          /\ strategy = "sliding_window" => result = other.result

\* C18 witness: the discard strategy trimmed one session's history while a
\* call of the summarization processor on another history was suspended in
\* agent.run
C18_Witness ==
    /\ strategy = "sliding_window"
    /\ Trims
    /\ pc = "done"
    /\ other.pc = "awaiting"
    /\ other.messages /= messages
    /\ summarization_agent /= None

(***************************************************************************)
(* The default counter, the guard and the searches as functions.           *)
(***************************************************************************)
\* the characters of the parts 1 .. n of a message
RECURSIVE PartCharsUpTo(_, _)
PartCharsUpTo(msg, n) ==
    IF n = 0 THEN 0 ELSE PartCharsUpTo(msg, n - 1) + msg.parts[n].chars

\* the total character count of the textual content of the units 1 .. n
RECURSIVE TextCharsUpTo(_, _)
TextCharsUpTo(msgs, n) ==
    IF n = 0 THEN 0
    ELSE TextCharsUpTo(msgs, n - 1) + PartCharsUpTo(msgs[n], Len(msgs[n].parts))

TextChars(msgs) == TextCharsUpTo(msgs, Len(msgs))

\* C21: the default counter equals floor(total characters of the textual
\* content / 4), is 0 for the empty history, and is monotone under suffix
\* growth: counter(messages[i:]) >= counter(messages[j:]) for i <= j <= len.
C21_DefaultCounter ==
    /\ count_tokens_approximately(<<>>) = 0
    /\ strategy = "none" =>
          /\ 4 * count_tokens_approximately(messages) <= TextChars(messages)
          /\ TextChars(messages) < 4 * (count_tokens_approximately(messages) + 1)
          /\ \A i \in 0 .. Len(messages) : \A j \in i .. Len(messages) :
                count_tokens_approximately(SliceFrom(messages, i))
                    >= count_tokens_approximately(SliceFrom(messages, j))
    /\ (strategy /= "none" /\ token_counter = "count_tokens_approximately") =>
          /\ 4 * total_tokens <= TextChars(messages)
          /\ TextChars(messages) < 4 * (total_tokens + 1)

\* C21 witness: a call counted a history whose character total leaves the
\* remainder 3, and dropping its first unit lowers the count
C21_Witness ==
    /\ strategy /= "none"
    /\ token_counter = "count_tokens_approximately"
    /\ TextChars(messages) % 4 = 3
    /\ 4 * total_tokens + 3 = TextChars(messages)
    /\ count_tokens_approximately(SliceFrom(messages, 1)) < total_tokens

\* C22: the downward scan from any candidate in 0 .. len returns the largest
\* index i <= candidate at which the guard holds; index 0 is safe on every
\* history and so is every index i >= len.
C22_ScanReturnsLargestSafe ==
    /\ strategy = "none" =>
          /\ SW_is_safe_cutoff_point(messages, 0)
          /\ SP_is_safe_cutoff_point(messages, 0)
          /\ \A i \in Len(messages) .. (Len(messages) + 2) :
                /\ SW_is_safe_cutoff_point(messages, i)
                /\ SP_is_safe_cutoff_point(messages, i)
          /\ \A candidate \in 0 .. Len(messages) :
                /\ LET k == SW_scan_down(messages, candidate)
                   IN  /\ k \in 0 .. candidate
                       /\ SW_is_safe_cutoff_point(messages, k)
                       /\ \A i \in (k + 1) .. candidate :
                             ~SW_is_safe_cutoff_point(messages, i)
                /\ LET k == SP_scan_down(messages, candidate)
                   IN  /\ k \in 0 .. candidate
                       /\ SP_is_safe_cutoff_point(messages, k)
                       /\ \A i \in (k + 1) .. candidate :
                             ~SP_is_safe_cutoff_point(messages, i)
    /\ (Resolved /\ keep.kind = "messages" /\ Len(messages) > keep.value) =>
          /\ cutoff_index <= Len(messages) - keep.value
          /\ SW_is_safe_cutoff_point(messages, cutoff_index)
          /\ \A i \in (cutoff_index + 1) .. (Len(messages) - keep.value) :
                ~SW_is_safe_cutoff_point(messages, i)

\* C22 witness: the summarization processor resolved a message-count cutoff
\* that the scan moved below its unsafe candidate and that is not 0
C22_Witness ==
    /\ strategy = "summarization"
    /\ Trims
    /\ keep.kind = "messages"
    /\ ~SP_is_safe_cutoff_point(messages, Len(messages) - keep.value)
    /\ cutoff_index < Len(messages) - keep.value

\* the positions the guard inspects for cutoff i
Window(msgs, i) ==
    Max(0, i - SP_SEARCH_RANGE_FOR_TOOL_PAIRS) ..
        (Min(Len(msgs), i + SP_SEARCH_RANGE_FOR_TOOL_PAIRS) - 1)

\* r holds some later return of a call with a non-empty id made at c
IsLaterReturn(msgs, c, r) ==
    /\ c \in Positions(msgs)
    /\ r \in Positions(msgs)
    /\ c < r
    /\ msgs[c + 1].kind = "response"
    /\ \E id \in ToolCallIds(msgs[c + 1]) : ReturnsAnyOf(msgs[r + 1], {id})

\* C23 as stated: for i < len the guard is false exactly when some call in
\* its window, with a non-empty id, is on the other side of i than its pair,
\* the first later return with the same id; later returns reusing an
\* answered id and calls without id do not make i unsafe.
C23_UnsafeIffFirstReturnSplit ==
    \A i \in Positions(messages) :
        ~SP_is_safe_cutoff_point(messages, i) <=>
            \E c \in Window(messages, i) : \E r \in Positions(messages) :
                IsPair(messages, c, r) /\ Splits(i, c, r)

\* C23 amended: for i < len the guard is false exactly when some call in its
\* window, with a non-empty id, is on the other side of i than some later
\* return with the same id, the first or a later one that reuses the id;
\* calls without id do not make i unsafe.
C23_UnsafeIffSomeReturnSplit ==
    /\ strategy = "none" =>
          \A i \in Positions(messages) :
              /\ ~SP_is_safe_cutoff_point(messages, i) <=>
                    \E c \in Window(messages, i) : \E r \in Positions(messages) :
                        IsLaterReturn(messages, c, r) /\ Splits(i, c, r)
              /\ SW_is_safe_cutoff_point(messages, i)
                    = SP_is_safe_cutoff_point(messages, i)
    /\ (Resolved /\ cutoff_index < Len(messages)) =>
          ~\E c \in Window(messages, cutoff_index) : \E r \in Positions(messages) :
              IsLaterReturn(messages, c, r) /\ Splits(cutoff_index, c, r)

\* C23 witness: the summarization processor moved its cutoff below a
\* candidate that splits no call from its first return and is unsafe only
\* because a later return reuses the id
C23_Witness ==
    /\ strategy = "summarization"
    /\ Resolved
    /\ keep.kind = "messages"
    /\ Len(messages) > keep.value
    /\ LET i == Len(messages) - keep.value
       IN  /\ ~SP_is_safe_cutoff_point(messages, i)
           /\ ~\E c \in Positions(messages) : \E r \in Positions(messages) :
                 IsPair(messages, c, r) /\ Splits(i, c, r)
           /\ cutoff_index < i

\* the specs a trigger list is drawn from, and the lists of up to n of them
TriggerPool == {Messages(2), Tokens(3), Fraction(1, 2)}

TriggerLists(pool, n) == UNION {[1 .. m -> pool] : m \in 0 .. n}

SpecsOf(list) == {list[n] : n \in DOMAIN list}

\* the pairs of a list of up to 2 and a list of up to 3 specs of TriggerPool
\* that hold the same set of specs
\* a history of user prompts only
Plain(msgs) == \A i \in DOMAIN msgs : msgs[i] = UserMsg

SameSpecsLists ==
    {pq \in TriggerLists(TriggerPool, 2) \X TriggerLists(TriggerPool, 3) :
        SpecsOf(pq[1]) = SpecsOf(pq[2])}

\* C24: the trigger decision does not depend on the order of the trigger
\* list or on repeated entries: for every history, total token count and
\* max_input_tokens, two lists holding the same set of specs decide alike.
\* The lists over TriggerPool are tried with every total token count on
\* histories of every length (of user prompts: the decision reads only
\* len(messages) of the history) and with every max_input_tokens of an
\* instance that has no trigger of its own; the decision of every call, on
\* whatever history, is compared with that of every rearrangement of its list.
C24_TriggerOrderIrrelevant ==
    /\ (/\ strategy = "none"
        /\ raised = "None"
        /\ trigger_conditions = <<>>
        /\ Plain(messages)) =>
          \A pq \in SameSpecsLists : \A tokens \in 0 .. MaxTokens :
              /\ SW_should_trim([self EXCEPT !.trigger_conditions = pq[1]], messages, tokens)
                    = SW_should_trim([self EXCEPT !.trigger_conditions = pq[2]], messages, tokens)
              /\ SP_should_summarize([self EXCEPT !.trigger_conditions = pq[1]], messages, tokens)
                    = SP_should_summarize([self EXCEPT !.trigger_conditions = pq[2]], messages, tokens)
    /\ strategy /= "none" =>
          \A q \in TriggerLists(SpecsOf(trigger_conditions), 3) :
              SpecsOf(q) = SpecsOf(trigger_conditions) =>
                  should = IF strategy = "sliding_window"
                           THEN SW_should_trim([self EXCEPT !.trigger_conditions = q],
                                               messages, total_tokens)
                           ELSE SP_should_summarize([self EXCEPT !.trigger_conditions = q],
                                                    messages, total_tokens)

\* C24 witness: the summarization processor decided to act on a list of two
\* different specs of which the first is not satisfied and the second is
C24_Witness ==
    /\ strategy = "summarization"
    /\ should
    /\ Len(trigger_conditions) = 2
    /\ trigger_conditions[1] /= trigger_conditions[2]
    /\ ~SP_should_summarize([self EXCEPT !.trigger_conditions = <<trigger_conditions[1]>>],
                            messages, total_tokens)

\* the least k with 2^k >= n
RECURSIVE CeilLog2(_)
CeilLog2(n) == IF n <= 1 THEN 0 ELSE 1 + CeilLog2((n + 1) \div 2)

\* the state in which the loop of _find_token_based_cutoff ends
SW_search_end(msgs, target) ==
    SW_binary_search(self, msgs, target, 0, Len(msgs), Len(msgs),
                     bit_length(Len(msgs)) + 1, 0)

SP_search_end(msgs, target) ==
    SP_binary_search(self, msgs, target, 0, Len(msgs), Len(msgs),
                     bit_length(Len(msgs)) + 1, 0)

\* C25: on every non-empty history of length N and for every target, the
\* binary search ends with left = right after at most ceil(log2 N) + 1
\* counter evaluations, before the for loop runs out of rounds; so does the
\* search of every call that resolves a token cutoff.
C25_SearchConverges ==
    /\ (strategy = "none" /\ Len(messages) >= 1) =>
          \A target \in 0 .. MaxTokens :
              \A end \in {SW_search_end(messages, target), SP_search_end(messages, target)} :
                  /\ end.left = end.right
                  /\ end.rounds <= CeilLog2(Len(messages)) + 1
                  /\ end.rounds < bit_length(Len(messages)) + 1
    /\ (Resolved /\ keep.kind = "tokens" /\ total_tokens > keep.value) =>
          LET end == IF strategy = "sliding_window"
                     THEN SW_search_end(messages, keep.value)
                     ELSE SP_search_end(messages, keep.value)
          IN  /\ end.left = end.right
              /\ end.rounds <= CeilLog2(Len(messages)) + 1
              /\ cutoff_index <= Min(end.candidate, Len(messages) - 1)

\* C25 witness: the summarization processor resolved a token cutoff on a
\* history of 4 units with a search that needed all of ceil(log2 4) + 1 = 3
\* counter evaluations
C25_Witness ==
    /\ strategy = "summarization"
    /\ Resolved
    /\ keep.kind = "tokens"
    /\ total_tokens > keep.value
    /\ Len(messages) = 4
    /\ SP_search_end(messages, keep.value).rounds = CeilLog2(Len(messages)) + 1

\* C26: a call of the summarization processor evaluates the trigger, then
\* resolves the cutoff, then applies it; agent.run is called at most once
\* per call, and only after the trigger evaluated to true and the cutoff
\* resolved to k > 0; once agent.run has failed the call has returned, the
\* agent is not run again.
C26_OneRunAfterResolve ==
    strategy = "summarization" =>
        /\ agent_runs \in {0, 1}
        /\ cutoff_index /= None => should
        /\ ~should => (cutoff_index = None /\ agent_runs = 0 /\ pc = "done")
        /\ agent_runs = 1 => (should /\ cutoff_index /= None /\ cutoff_index > 0)
        /\ pc = "awaiting" => (agent_runs = 1 /\ exc = "None" /\ result = <<>>)
        /\ exc = "run" => (pc = "done" /\ agent_runs = 1)
        /\ exc = "Agent" => (pc = "done" /\ agent_runs = 0)
        /\ (pc = "done" /\ should /\ cutoff_index > 0) =>
              result = SP_result(messages, cutoff_index,
                                 IF exc /= "None" THEN "Error generating summary"
                                 ELSE IF agent_runs = 1 THEN "summary"
                                 ELSE "No previous conversation history.")

\* C26 witness: agent.run failed in a call whose trigger held and whose
\* cutoff is positive; the call has returned after that one run
C26_Witness ==
    /\ strategy = "summarization"
    /\ exc = "run"
    /\ pc = "done"
    /\ agent_runs = 1
    /\ should
    /\ cutoff_index > 0

\* both processors decide alike on msgs, resolve the same cutoff and, when
\* they cut, the summarization output without its first message is the
\* sliding-window output
SameEngine(msgs) ==
    LET sw == SW_process(self, msgs)
        sp == SP_process(self, msgs)
    IN  /\ sw.should = sp.should
        /\ sw.cutoff_index = sp.cutoff_index
        /\ SW_determine_cutoff_index(self, msgs) = SP_determine_cutoff_index(self, msgs)
        /\ sp.summarizes => Tail(SP_result(msgs, sp.cutoff_index, "summary")) = sw.result

\* C27: for every validated configuration (any supplied max_input_tokens,
\* including 0) and every history the two processors compute the same
\* trigger decision and the same cutoff index, and when they cut, the
\* summarization output minus its first message equals the sliding-window
\* output.
C27_SameEngine ==
    (strategy = "none" /\ raised = "None") => SameEngine(messages)

\* the two processors agree wherever max_input_tokens is not 0
SameEngineUnlessZeroBudget ==
    (strategy = "none" /\ raised = "None" /\ max_input_tokens /= 0) => SameEngine(messages)

\* processing the output of the sliding-window processor returns that output
Idempotent(msgs) ==
    SW_process(self, SW_process(self, msgs).result).result = SW_process(self, msgs).result

\* C28 as stated: the sliding-window processor is idempotent for every valid
\* configuration and every counter that is a function of the list it is
\* given: processing its own output returns that output.
C28_Idempotent ==
    (strategy = "none" /\ raised = "None") => Idempotent(messages)

\* C28 amended: the sliding-window processor is idempotent for every valid
\* configuration and every counter that is monotone under suffix growth on
\* the history; a call's output, processed again, is returned as it is.
C28_IdempotentWhenMonotone ==
    /\ (strategy = "none" /\ raised = "None" /\ MonotoneCounter(messages)) =>
          Idempotent(messages)
    /\ (strategy = "sliding_window" /\ pc = "done" /\ MonotoneCounter(messages)) =>
          SW_process(self, result).result = result

\* C28 witness: the sliding-window processor cut a history below the
\* candidate of its token search, its output still exceeds the target, and
\* processing the output again cuts nothing
C28_Witness ==
    /\ strategy = "sliding_window"
    /\ pc = "done"
    /\ Trims
    /\ keep.kind = "tokens"
    /\ MonotoneCounter(messages)
    /\ cutoff_index < SW_cutoff_candidate(self, messages, keep.value)
    /\ CallCounter(token_counter, result) > keep.value
    /\ SW_process(self, result).should
    /\ SW_process(self, result).result = result

\* C29: on a non-empty history and with integer thresholds the cutoff either
\* processor resolves is below len(messages); the sliding-window processor
\* never returns an empty list and its output ends with the last message of
\* the history, also when that message alone exceeds the token budget.
C29_CutoffBelowLen ==
    /\ (strategy = "none" /\ raised = "None" /\ Len(messages) >= 1) =>
          /\ SW_determine_cutoff_index(self, messages) < Len(messages)
          /\ SP_determine_cutoff_index(self, messages) < Len(messages)
          /\ SW_process(self, messages).result /= <<>>
    /\ (Resolved /\ Len(messages) >= 1) =>
          /\ cutoff_index >= 0
          /\ cutoff_index < Len(messages)
    /\ (strategy = "sliding_window" /\ pc = "done" /\ Len(messages) >= 1) =>
          /\ result /= <<>>
          /\ result[Len(result)] = messages[Len(messages)]

\* C29 witness: the sliding-window processor kept exactly the last message
\* of a longer history although that message alone exceeds the token target
C29_Witness ==
    /\ strategy = "sliding_window"
    /\ pc = "done"
    /\ Trims
    /\ keep.kind = "tokens"
    /\ token_counter = "count_tokens_approximately"
    /\ Len(messages) >= 2
    /\ count_tokens_approximately(SliceFrom(messages, Len(messages) - 1)) > keep.value
    /\ cutoff_index = Len(messages) - 1
    /\ result = <<messages[Len(messages)]>>

\* C30: a call never returns more messages than it was given; the
\* sliding-window processor returns fewer whenever it cuts, and the
\* summarization processor returns len - k + 1 messages for cutoff k, as
\* many as it was given when k = 1.
C30_NeverGrows ==
    Returned =>
        /\ Len(result) <= Len(messages)
        /\ (strategy = "sliding_window" /\ Trims) => Len(result) < Len(messages)
        /\ (strategy = "summarization" /\ Trims) =>
              Len(result) = Len(messages) - cutoff_index + 1
        /\ (strategy = "summarization" /\ Trims /\ cutoff_index = 1) =>
              Len(result) = Len(messages)
        /\ ~Trims => Len(result) = Len(messages)

\* C30 witness: the summarization processor replaced one message by its
\* summary, the output is as long as the input and differs from it
C30_Witness ==
    /\ Returned
    /\ strategy = "summarization"
    /\ Trims
    /\ cutoff_index = 1
    /\ Len(messages) >= 2
    /\ Len(result) = Len(messages)
    /\ result /= messages

====
